---- MODULE Spec2Model ----
(***************************************************************************)
(* Model of the chat orchestration of AI-assistant-chat-RAG:               *)
(*   agent/app/main.py         the /api/chat handler, the per-thread       *)
(*                             store and the diff-merge                    *)
(*   agent/app/state_graph.py  the router, the persona handlers, the       *)
(*                             committee fan-out and the graph wiring      *)
(* Texts are TLA+ strings; the string methods and regular expressions of   *)
(* the source are computed character by character.                         *)
(***************************************************************************)
EXTENDS Integers, Sequences, FiniteSets, TLC

VARIABLES
    \* ---- classification in isolation (SpecRouter)
    cl_messages,    \* the history handed to router()
    cl_llm,         \* how the completion service behaves on the router's call
    cl_pc,          \* "call" | "returned"
    cl_result       \* what router() returned and how often it called the service

cl_vars == <<cl_messages, cl_llm, cl_pc, cl_result>>

VARIABLES
    \* ---- the diff-merge in isolation (SpecDiff)
    d_before,       \* the history handed to the merge step (loaded + user turn)
    d_new,          \* the assistant turns the executor newly produced
    d_done,         \* which applications of the merge step have run
    d_full,         \* merged history when the executor returned before + new
    d_delta,        \* merged history when the executor returned only new
    d_again,        \* merged history after merging d_full with before + new again
    d_mal,          \* an unusable result of the executor and what step 4 made of it
    d_mix           \* a result holding system and user turns, and its merged history

d_vars == <<d_before, d_new, d_done, d_full, d_delta, d_again, d_mal, d_mix>>

VARIABLES
    \* ---- the label-prefix policy in isolation (SpecLabel)
    l_label,        \* the label handed to _apply_label
    l_reply,        \* the reply handed to _apply_label
    l_pc,           \* "start" | "once" | "twice"
    l_once,         \* _apply_label(l_label, l_reply)
    l_twice         \* _apply_label(l_label, l_once)

l_vars == <<l_label, l_reply, l_pc, l_once, l_twice>>

VARIABLES
    \* ---- the committee fan-out in isolation (SpecCommittee)
    k_state,        \* the State handed to committee_node
    k_round,        \* how often committee_node has run
    k_prev,         \* the State the last run was handed
    k_out,          \* what the last run returned
    k_calls         \* the completion calls the last run issued, in order

k_vars == <<k_state, k_round, k_prev, k_out, k_calls>>

VARIABLES
    \* ---- the service (Spec)
    store,              \* thread_id -> the stored message list (<<>>: no blob)
    pc,                 \* request slot -> where its chat call stands
    req,                \* request slot -> thread_id, message and system_prompt of the request
    local_history,      \* request slot -> the local list `history` of chat
    state,              \* request slot -> the graph's State
    response,           \* request slot -> status, reply and citations returned
    started,            \* number of requests begun
    \* ---- what happened, kept for the properties
    node_trace,         \* request slot -> the graph nodes run, in order
    router_label,       \* request slot -> the label _classify returned
    persisted_before,   \* request slot -> the thread's stored list when it began
    faults,             \* request slot -> the store calls that raised
    writes,             \* request slot -> number of blobs it wrote
    classify_calls,     \* request slot -> number of completion calls of its classifier
    calls               \* request slot -> the handlers' completion calls and the
                        \*                 retrieval call, in the order issued

main_vars ==
    <<store, pc, req, local_history, state, response, started, node_trace, router_label,
      persisted_before, faults, writes, classify_calls, calls>>

vars == <<cl_vars, d_vars, l_vars, k_vars, main_vars>>

(***************************************************************************)
(* Python string primitives used by the source                             *)
(***************************************************************************)
LowerCase == "abcdefghijklmnopqrstuvwxyz"
UpperCase == "ABCDEFGHIJKLMNOPQRSTUVWXYZ"
Digits == "0123456789"

Char(s, i) == SubSeq(s, i, i)

\* position of character c in alphabet, 0 when absent
IndexIn(c, alphabet) ==
    IF \E i \in 1..Len(alphabet) : Char(alphabet, i) = c
    THEN CHOOSE i \in 1..Len(alphabet) : Char(alphabet, i) = c
    ELSE 0

IsUpper(c) == IndexIn(c, UpperCase) > 0

\* \s of the re module and the characters str.strip() removes
IsSpace(c) == c \in {" ", "\n", "\t", "\r"}

\* \w of the re module
IsWordChar(c) == IndexIn(c, LowerCase \o UpperCase \o Digits \o "_") > 0

LowerChar(c) ==
    LET i == IndexIn(c, UpperCase) IN IF i = 0 THEN c ELSE Char(LowerCase, i)

UpperChar(c) ==
    LET i == IndexIn(c, LowerCase) IN IF i = 0 THEN c ELSE Char(UpperCase, i)

Tail1(s) == SubSeq(s, 2, Len(s))

\* str.lower()
RECURSIVE lower(_)
lower(s) == IF s = "" THEN "" ELSE LowerChar(Char(s, 1)) \o lower(Tail1(s))

\* str.upper()
RECURSIVE upper(_)
upper(s) == IF s = "" THEN "" ELSE UpperChar(Char(s, 1)) \o upper(Tail1(s))

\* str.strip()
strip(s) ==
    LET keep == {i \in 1..Len(s) : ~IsSpace(Char(s, i))}
    IN  IF keep = {} THEN ""
        ELSE SubSeq(s, CHOOSE i \in keep : \A j \in keep : i <= j,
                       CHOOSE i \in keep : \A j \in keep : i >= j)

\* re.sub(r"[^A-Z]", "", raw)
RECURSIVE OnlyUpperLetters(_)
OnlyUpperLetters(s) ==
    IF s = "" THEN ""
    ELSE (IF IsUpper(Char(s, 1)) THEN Char(s, 1) ELSE "") \o OnlyUpperLetters(Tail1(s))

\* the literal w occurs in t at position i
StartsAt(t, w, i) == i >= 1 /\ i + Len(w) - 1 <= Len(t) /\ SubSeq(t, i, i + Len(w) - 1) = w

\* re.search of a literal
Contains(t, w) == \E i \in 1..Len(t) : StartsAt(t, w, i)

\* \b between positions i-1 and i of t
WordBoundary(t, i) ==
    LET left == i >= 2 /\ i - 1 <= Len(t) /\ IsWordChar(Char(t, i - 1))
        right == i >= 1 /\ i <= Len(t) /\ IsWordChar(Char(t, i))
    IN  left # right

\* re.search(r"\bw\b", t)
HasWord(t, w) ==
    \E i \in 1..Len(t) :
        StartsAt(t, w, i) /\ WordBoundary(t, i) /\ WordBoundary(t, i + Len(w))

\* every character of t at positions i..j-1 matches \W
NonWordRun(t, i, j) == \A k \in i..(j - 1) : ~IsWordChar(Char(t, k))

\* re.search(r"a\W*b\W*c", t)
HasJuxtaposed(t, a, b, c) ==
    \E i \in 1..Len(t) :
        /\ StartsAt(t, a, i)
        /\ \E j \in (i + Len(a))..Len(t) :
            /\ StartsAt(t, b, j)
            /\ NonWordRun(t, i + Len(a), j)
            /\ \E k \in (j + Len(b))..Len(t) :
                /\ StartsAt(t, c, k)
                /\ NonWordRun(t, j + Len(b), k)

(***************************************************************************)
(* Messages and the completion service                                     *)
(***************************************************************************)
Msg(role, content) == [role |-> role, content |-> content]

\* A behaviour of one llm.complete call: it raises (content is the error
\* text) or the service answers with content.
Raises(e) == [raises |-> TRUE, content |-> e]
Answers(c) == [raises |-> FALSE, content |-> c]

\* OpenAIChat.complete: the answer's content, stripped
complete(beh) == strip(beh.content)

(***************************************************************************)
(* Router helpers                                                          *)
(***************************************************************************)
LABELS == {"MENTOR", "PM", "CTO", "VC", "COMMITTEE"}

_last_user_index(messages) ==
    LET us == {i \in 1..Len(messages) : messages[i].role = "user"}
    IN  IF us = {} THEN 0 ELSE CHOOSE i \in us : \A j \in us : j <= i

_committee_trigger(text) ==
    LET t == lower(text)
    IN  \/ HasWord(t, "committee")
        \/ HasWord(t, "panel")
        \/ Contains(t, "all of you")
        \/ HasJuxtaposed(t, "vc", "pm", "cto")
        \/ HasJuxtaposed(t, "pm", "cto", "vc")

_heuristic_label_pm_first(text) ==
    LET t == lower(text)
    IN  IF _committee_trigger(t) THEN "COMMITTEE"
        ELSE IF HasWord(t, "pm") \/ Contains(t, "product manager")
                \/ Contains(t, "@pm") THEN "PM"
        ELSE IF HasWord(t, "cto") \/ Contains(t, "chief technology officer")
                \/ Contains(t, "@cto") THEN "CTO"
        ELSE IF HasWord(t, "vc") \/ Contains(t, "investor")
                \/ Contains(t, "venture capital") \/ Contains(t, "@vc") THEN "VC"
        ELSE "MENTOR"

_heuristic_label(text) ==
    LET t == lower(text)
    IN  IF _committee_trigger(t) THEN "COMMITTEE"
        ELSE IF HasWord(t, "cto") \/ Contains(t, "chief technology officer")
                \/ Contains(t, "@cto") THEN "CTO"
        ELSE IF HasWord(t, "pm") \/ Contains(t, "product manager")
                \/ Contains(t, "@pm") THEN "PM"
        ELSE IF HasWord(t, "vc") \/ Contains(t, "investor")
                \/ Contains(t, "venture capital") \/ Contains(t, "@vc") THEN "VC"
        ELSE "MENTOR"

_classify_llm_first(messages, beh) ==
    LET last == _last_user_index(messages)
        text == messages[last].content
        label == OnlyUpperLetters(upper(strip(complete(beh))))
    IN  IF last = 0 THEN [label |-> "MENTOR", llm_calls |-> 0]
        ELSE IF ~beh.raises /\ label \in LABELS THEN [label |-> label, llm_calls |-> 1]
        ELSE [label |-> _heuristic_label(text), llm_calls |-> 1]

_classify_unvalidated(messages, beh) ==
    LET last == _last_user_index(messages)
        text == messages[last].content
        label == OnlyUpperLetters(upper(strip(complete(beh))))
    IN  IF last = 0 THEN [label |-> "MENTOR", llm_calls |-> 0]
        ELSE IF _committee_trigger(text) THEN [label |-> "COMMITTEE", llm_calls |-> 0]
        ELSE IF beh.raises THEN [label |-> _heuristic_label(text), llm_calls |-> 1]
        ELSE [label |-> label, llm_calls |-> 1]

\* _classify: the label, and the number of completion calls it made
_classify(messages, beh) ==
    LET last == _last_user_index(messages)
        text == messages[last].content
        raw == upper(strip(complete(beh)))
        label == OnlyUpperLetters(raw)
    IN  IF last = 0 THEN [label |-> "MENTOR", llm_calls |-> 0]
        ELSE IF _committee_trigger(text) THEN [label |-> "COMMITTEE", llm_calls |-> 0]
        ELSE IF beh.raises \/ label \notin LABELS
             THEN [label |-> _heuristic_label(text), llm_calls |-> 1]
        ELSE [label |-> label, llm_calls |-> 1]

phase_map(label) ==
    CASE label = "MENTOR" -> "mentor"
      [] label = "PM" -> "pm"
      [] label = "CTO" -> "cto"
      [] label = "VC" -> "vc"
      [] label = "COMMITTEE" -> "committee"
      [] OTHER -> "mentor"

\* router(state): the phase written to the state, with the label behind it
router(messages, beh) ==
    LET c == _classify(messages, beh)
    IN  [phase |-> phase_map(c.label), label |-> c.label, llm_calls |-> c.llm_calls]

(***************************************************************************)
(* SpecRouter: router() on bounded histories and classifier behaviours     *)
(***************************************************************************)
RouterTexts ==
    {"Hi", "", "ask the committee", "Committees rule", "subcommittee vote",
     "COMMITTEE!", "a panel please", "all of you", "vc, pm & cto", "pm+cto+vc",
     "@cto scale?", "our PM said", "pm and cto", "investor deck", "spam",
     "vc or pm", "investor, product manager", "@vc @cto"}

ClassifierBehaviours ==
    {Raises("timeout"), Answers(""), Answers("PM"), Answers("pm."),
     Answers(" Cto\n"), Answers("VC"), Answers("MENTOR"), Answers("COMMITTEE"),
     Answers("The PM"), Answers("P M"), Answers("???")}

RouterHistories ==
    {<<>>, <<Msg("system", "seed")>>,
     <<Msg("system", "seed"), Msg("assistant", "ask the committee")>>}
    \cup {<<Msg("system", "seed"), Msg("user", t)>> : t \in RouterTexts}
    \cup {<<Msg("system", "seed"), Msg("user", "ask the committee"),
            Msg("assistant", "**Mentor:** ok"), Msg("user", t)>> : t \in RouterTexts}

NoResult == [phase |-> "", label |-> "", llm_calls |-> 0]

RouterInit ==
    /\ cl_messages \in RouterHistories
    /\ cl_llm \in ClassifierBehaviours
    /\ cl_pc = "call"
    /\ cl_result = NoResult

RouterCall ==
    /\ cl_pc = "call"
    /\ cl_result' = router(cl_messages, cl_llm)
    /\ cl_pc' = "returned"
    /\ UNCHANGED <<cl_messages, cl_llm, d_vars, l_vars, k_vars, main_vars>>

RouterIdle ==
    /\ cl_messages = <<>>
    /\ cl_llm = Answers("")
    /\ cl_pc = "returned"
    /\ cl_result = NoResult

(***************************************************************************)
(* The diff-merge of the Session Reconciler                                *)
(***************************************************************************)
_normalize_msg(m) == [role |-> m.role, content |-> m.content]

RECURSIVE MapNormalize(_)
MapNormalize(ms) ==
    IF ms = <<>> THEN <<>> ELSE <<_normalize_msg(Head(ms))>> \o MapNormalize(Tail(ms))

IsAssistant(m) == m.role = "assistant"

\* the (role, content) key of the set-based fallback; every content of this
\* program is a str, on which str() is the identity
MsgKey(m) == <<m.role, m.content>>

_diff_no_seen_check(before, after) ==
    IF Len(after) > Len(before)
    THEN MapNormalize(SelectSeq(SubSeq(after, Len(before) + 1, Len(after)), IsAssistant))
    ELSE MapNormalize(SelectSeq(after, IsAssistant))

_diff_any_role(before, after) ==
    IF Len(after) > Len(before)
    THEN MapNormalize(SubSeq(after, Len(before) + 1, Len(after)))
    ELSE LET seen == {MsgKey(before[i]) : i \in 1..Len(before)}
             IsNew(m) == MsgKey(m) \notin seen
         IN  MapNormalize(SelectSeq(after, IsNew))

_diff_new_assistant_messages(before, after) ==
    IF Len(after) > Len(before)
    THEN MapNormalize(SelectSeq(SubSeq(after, Len(before) + 1, Len(after)), IsAssistant))
    ELSE LET seen == {MsgKey(before[i]) : i \in 1..Len(before)}
             IsNew(m) == MsgKey(m) \notin seen /\ m.role = "assistant"
         IN  MapNormalize(SelectSeq(after, IsNew))

\* chat, step 4: the merged history from the local history and the messages
\* of the graph's result
MergeStep(history, result_messages) ==
    LET result_msgs == MapNormalize(result_messages)
        after == IF result_msgs = <<>> THEN history ELSE result_msgs
    IN  history \o _diff_new_assistant_messages(history, after)

\* What _normalize_msg makes of an element that is no message: it finds
\* neither role nor content, both are None.
NoMessage == [role |-> "None", content |-> "None"]

\* The value of result.get("messages", []): absent (the default [] is
\* taken), a list, or a value that is no list and cannot be iterated (None).
Absent == [shape |-> "absent", messages |-> <<>>]
ListOf(ms) == [shape |-> "list", messages |-> ms]
NotIterable == [shape |-> "none", messages |-> <<>>]

\* chat, step 4 on such a value: the list comprehension over it raises a
\* TypeError when it cannot be iterated, outside any try
merge_result(history, result) ==
    IF result.shape = "none" THEN [raised |-> TRUE, history |-> history]
    ELSE [raised |-> FALSE, history |-> MergeStep(history, result.messages)]

UnusableResults ==
    {Absent, ListOf(<<>>), ListOf(<<NoMessage>>),
     ListOf(<<NoMessage, NoMessage, NoMessage, NoMessage, NoMessage, NoMessage, NoMessage>>),
     NotIterable}

\* Executor outputs that hold system and user turns beside the new
\* assistant turn: a persona instruction put in front of the whole list, a
\* persona's seeded sub-history with its reply, turns of other roles after
\* before, and a list with no assistant turn at all.
PersonaInstruction == Msg("system", "You are Product Manager (PM).")
MixedOutputs(before, new) ==
    {<<PersonaInstruction>> \o before \o new,
     <<PersonaInstruction, before[Len(before)]>> \o new,
     before \o <<Msg("user", "And then?"), PersonaInstruction>> \o new,
     <<PersonaInstruction, Msg("user", "And then?")>>}

NoMix == [after |-> <<>>, merged |-> <<>>]

NoMerge == [result |-> Absent, out |-> [raised |-> FALSE, history |-> <<>>]]

(***************************************************************************)
(* SpecDiff: the merge step on bounded histories                           *)
(***************************************************************************)
MaxHist == 5

DiffTurns ==
    {Msg("system", "seed"), Msg("user", "Hi"), Msg("user", "@pm plan?"),
     Msg("assistant", "**Mentor:** Focus."), Msg("assistant", "**PM:** Ship.")}

\* histories of the shape chat builds: the seed, then user and assistant
\* turns, no assistant turn first or after another, the new user turn last
DiffBefores ==
    UNION {{s \in [1..n -> DiffTurns] :
                /\ s[1].role = "system"
                /\ \A i \in 2..n : s[i].role # "system"
                /\ s[2].role = "user"
                /\ s[n].role = "user"
                /\ \A i \in 2..(n - 1) : ~(s[i].role = "assistant" /\ s[i + 1].role = "assistant")}
           : n \in 2..MaxHist}

DiffInit ==
    /\ d_before \in DiffBefores
    /\ d_new \in {<<a>> : a \in {m \in DiffTurns : m.role = "assistant"}}
    /\ d_done = {}
    /\ d_full = <<>>
    /\ d_delta = <<>>
    /\ d_again = <<>>
    /\ d_mal = NoMerge
    /\ d_mix = NoMix

\* the executor returned the full accumulated list
MergeFull ==
    /\ "full" \notin d_done
    /\ d_full' = MergeStep(d_before, d_before \o d_new)
    /\ d_done' = d_done \cup {"full"}
    /\ UNCHANGED <<d_before, d_new, d_delta, d_again, d_mal, d_mix, cl_vars, l_vars, k_vars, main_vars>>

\* the executor returned only the newly produced turns
MergeDelta ==
    /\ "delta" \notin d_done
    /\ d_delta' = MergeStep(d_before, d_new)
    /\ d_done' = d_done \cup {"delta"}
    /\ UNCHANGED <<d_before, d_new, d_full, d_again, d_mal, d_mix, cl_vars, l_vars, k_vars, main_vars>>

\* the merge step once more: the merged history is the new before, after is the same
MergeAgain ==
    /\ "full" \in d_done
    /\ "again" \notin d_done
    /\ d_again' = MergeStep(d_full, d_before \o d_new)
    /\ d_done' = d_done \cup {"again"}
    /\ UNCHANGED <<d_before, d_new, d_full, d_delta, d_mal, d_mix, cl_vars, l_vars, k_vars, main_vars>>

DiffIdle ==
    /\ d_before = <<>>
    /\ d_new = <<>>
    /\ d_done = {}
    /\ d_full = <<>>
    /\ d_delta = <<>>
    /\ d_again = <<>>
    /\ d_mal = NoMerge
    /\ d_mix = NoMix

\* the executor returned a result that holds no usable history
MergeUnusable ==
    \E result \in UnusableResults :
        /\ "unusable" \notin d_done
        /\ d_mal' = [result |-> result, out |-> merge_result(d_before, result)]
        /\ d_done' = d_done \cup {"unusable"}
        /\ UNCHANGED <<d_before, d_new, d_full, d_delta, d_again, d_mix, cl_vars, l_vars,
                       k_vars, main_vars>>

\* the executor returned system and user turns with its new turn
MergeMixed ==
    \E after \in MixedOutputs(d_before, d_new) :
        /\ "mixed" \notin d_done
        /\ d_mix' = [after |-> after, merged |-> MergeStep(d_before, after)]
        /\ d_done' = d_done \cup {"mixed"}
        /\ UNCHANGED <<d_before, d_new, d_full, d_delta, d_again, d_mal, cl_vars, l_vars,
                       k_vars, main_vars>>

DiffNext == MergeFull \/ MergeDelta \/ MergeAgain \/ MergeUnusable \/ MergeMixed

(***************************************************************************)
(* Seeding and labeling helpers (state_graph.py)                           *)
(***************************************************************************)
PersonaNames == {"PM", "CTO", "VC"}

\* the composed system prompts, cut to their first sentence
ROLE_SYSTEM(name) ==
    CASE name = "MENTOR" -> "You are AI Mentor."
      [] name = "PM" -> "You are Product Manager (PM)."
      [] name = "CTO" -> "You are Chief Technology Officer (CTO)."
      [] name = "VC" -> "You are Venture Capital Partner (VC)."

IsNotSystem(m) == m.role # "system"

_ensure_seed(history, system_prompt) ==
    <<Msg("system", system_prompt)>> \o SelectSeq(history, IsNotSystem)

LABEL_PREFIX(label) ==
    CASE label = "MENTOR" -> "**Mentor:** "
      [] label = "PM" -> "**PM:** "
      [] label = "CTO" -> "**CTO:** "
      [] label = "VC" -> "**VC:** "

\* the first position >= i of s that holds no whitespace (Len(s) + 1 if none)
SkipSpaces(s, i) ==
    LET rest == {j \in i..Len(s) : ~IsSpace(Char(s, j))}
    IN  IF rest = {} THEN Len(s) + 1 ELSE CHOOSE j \in rest : \A k \in rest : j <= k

\* re.match(rf"^\s*(?:\*\*\s*)?{role}\s*:\s*", s, flags=re.IGNORECASE)
LabelMatch(role, s) ==
    LET i1 == SkipSpaces(s, 1)
        i2 == IF StartsAt(s, "**", i1) THEN SkipSpaces(s, i1 + 2) ELSE i1
        i3 == SkipSpaces(s, i2 + Len(role))
    IN  StartsAt(lower(s), role, i2) /\ StartsAt(s, ":", i3)

_apply_label_always_prefix(label, reply) ==
    LABEL_PREFIX(label) \o strip(reply)

_apply_label(label, reply) ==
    LET reply_clean == strip(reply)
    IN  IF LabelMatch(lower(label), reply_clean) THEN reply_clean
        ELSE LABEL_PREFIX(label) \o reply_clean

(***************************************************************************)
(* SpecLabel: _apply_label on bounded replies, applied once and then again *)
(* to its own result                                                       *)
(***************************************************************************)
LabelReplies ==
    {"", " ", "Focus.", " Focus.\n", "PM: ship", "**PM:** ship", "**pm:** ship",
     "pm : ship", "** PM: ship", "**PM**: ship", "PM ship", "**PM:**", "PM", "**",
     "Mentor: hi", "**Mentor:** hi", "MENTOR:hi", "**CTO:** scale", "cto:", "VC: fund",
     "**vc:** fund", "(No response generated)", "(Error calling LLM: timeout)"}

LabelInit ==
    /\ l_label \in LABELS \ {"COMMITTEE"}
    /\ l_reply \in LabelReplies
    /\ l_pc = "start"
    /\ l_once = ""
    /\ l_twice = ""

ApplyOnce ==
    /\ l_pc = "start"
    /\ l_once' = _apply_label(l_label, l_reply)
    /\ l_pc' = "once"
    /\ UNCHANGED <<l_label, l_reply, l_twice, cl_vars, d_vars, k_vars, main_vars>>

ApplyTwice ==
    /\ l_pc = "once"
    /\ l_twice' = _apply_label(l_label, l_once)
    /\ l_pc' = "twice"
    /\ UNCHANGED <<l_label, l_reply, l_once, cl_vars, d_vars, k_vars, main_vars>>

LabelIdle ==
    /\ l_label = "MENTOR"
    /\ l_reply = ""
    /\ l_pc = "twice"
    /\ l_once = ""
    /\ l_twice = ""

LabelNext == ApplyOnce \/ ApplyTwice

\* reply = await llm.complete(seeded); reply = reply or "(No response generated)"
ReplyOrDefault(beh) == IF complete(beh) = "" THEN "(No response generated)" ELSE complete(beh)

\* the try/except around the completion call of mentor_node .. vc_node
NodeReply(beh) ==
    IF beh.raises THEN "(Error calling LLM: " \o beh.content \o ")" ELSE ReplyOrDefault(beh)

\* the last two elements of a list: seeded[-2:]
LastTwo(s) == SubSeq(s, IF Len(s) > 2 THEN Len(s) - 1 ELSE 1, Len(s))

_run_persona(name, history, user_msg, beh) ==
    LET seeded == _ensure_seed(history, ROLE_SYSTEM(name)) \o <<user_msg>>
        reply_text == IF beh.raises
                      THEN "(Error calling LLM for " \o name \o ": " \o beh.content \o ")"
                      ELSE ReplyOrDefault(beh)
    IN  [history |-> seeded \o <<Msg("assistant", reply_text)>>, text |-> reply_text]

(***************************************************************************)
(* Graph state and nodes. A node returns an update; a key of State without *)
(* a reducer takes the returned value (state_graph.py, class State).       *)
(***************************************************************************)
NoPersonas == [n \in PersonaNames |-> <<>>]

\* graph.ainvoke({"messages": history}): personas and phase not set
InputState(messages) == [messages |-> messages, personas |-> NoPersonas, phase |-> ""]

ApplyUpdate(st, upd) == [k \in DOMAIN st |-> IF k \in DOMAIN upd THEN upd[k] ELSE st[k]]

mentor_node(st, beh) ==
    [messages |-> <<Msg("assistant", _apply_label("MENTOR", NodeReply(beh)))>>,
     phase |-> "mentor"]

\* pm_node, cto_node and vc_node are the same code for their own name
persona_node(name, st, beh) ==
    LET seeded == _ensure_seed(st.messages, ROLE_SYSTEM(name))
    IN  [messages |-> <<Msg("assistant", _apply_label(name, NodeReply(beh)))>>,
         personas |-> [st.personas EXCEPT ![name] = @ \o LastTwo(seeded)],
         phase |-> lower(name)]

pm_node(st, beh) == persona_node("PM", st, beh)

cto_node(st, beh) == persona_node("CTO", st, beh)

vc_node(st, beh) == persona_node("VC", st, beh)

\* the fixed parts of the combined reply; the source's header starts with an
\* emoji and its hint quotes the phrase in backquotes
CommitteeHeader == "**Committee Response**\n\n"
CommitteeHint ==
    "If you want a single, consolidated recommendation, say: make a final decision."

committee_node_one_try(st, behs) ==
    LET last == _last_user_index(st.messages)
        run(name) == _run_persona(name, st.personas[name], st.messages[last], behs[name])
        failed == {n \in PersonaNames : behs[n].raises}
        combined ==
            CommitteeHeader
            \o "**PM:** " \o _apply_label("PM", run("PM").text) \o "\n\n"
            \o "**CTO:** " \o _apply_label("CTO", run("CTO").text) \o "\n\n"
            \o "**VC:** " \o _apply_label("VC", run("VC").text) \o "\n\n"
            \o CommitteeHint
    IN  IF last = 0 THEN mentor_node(st, behs["PM"])
        ELSE IF failed # {}
        THEN [messages |-> <<Msg("assistant", "(Error calling LLM: timeout)")>>,
              personas |-> st.personas,
              phase |-> "committee"]
        ELSE [messages |-> <<Msg("assistant", combined)>>,
              personas |-> [n \in PersonaNames |-> run(n).history],
              phase |-> "committee"]

committee_node_shared_history(st, behs) ==
    LET last == _last_user_index(st.messages)
        run(name) == _run_persona(name, st.messages, st.messages[last], behs[name])
        combined ==
            CommitteeHeader
            \o "**PM:** " \o _apply_label("PM", run("PM").text) \o "\n\n"
            \o "**CTO:** " \o _apply_label("CTO", run("CTO").text) \o "\n\n"
            \o "**VC:** " \o _apply_label("VC", run("VC").text) \o "\n\n"
            \o CommitteeHint
    IN  IF last = 0 THEN mentor_node(st, behs["PM"])
        ELSE [messages |-> <<Msg("assistant", combined)>>,
              personas |-> [n \in PersonaNames |-> run(n).history],
              phase |-> "committee"]

committee_node(st, behs) ==
    LET last == _last_user_index(st.messages)
        run(name) == _run_persona(name, st.personas[name], st.messages[last], behs[name])
        combined ==
            CommitteeHeader
            \o "**PM:** " \o _apply_label("PM", run("PM").text) \o "\n\n"
            \o "**CTO:** " \o _apply_label("CTO", run("CTO").text) \o "\n\n"
            \o "**VC:** " \o _apply_label("VC", run("VC").text) \o "\n\n"
            \o CommitteeHint
    IN  IF last = 0 THEN mentor_node(st, behs["PM"])
        ELSE [messages |-> <<Msg("assistant", combined)>>,
              personas |-> [n \in PersonaNames |-> run(n).history],
              phase |-> "committee"]

\* One call to an external collaborator: whom it was for, the messages (or
\* the query) it was given, whether it raised and the text it answered (the
\* error's text when it raised).
Call(to, messages, beh) ==
    [to |-> to, messages |-> messages, raises |-> beh.raises, answer |-> beh.content]

\* reply = await llm.complete(seeded) of mentor_node .. vc_node
persona_call(name, st, beh) ==
    Call(name, _ensure_seed(st.messages, ROLE_SYSTEM(name)), beh)

committee_calls_sorted(st, behs) ==
    LET last == _last_user_index(st.messages)
        call(name) ==
            Call(name, _ensure_seed(st.personas[name], ROLE_SYSTEM(name)) \o <<st.messages[last]>>,
                 behs[name])
    IN  IF last = 0 THEN <<persona_call("MENTOR", st, behs["PM"])>>
        ELSE <<call("CTO"), call("PM"), call("VC")>>

\* the completion calls of committee_node, in the order of its loop
committee_calls(st, behs) ==
    LET last == _last_user_index(st.messages)
        call(name) ==
            Call(name, _ensure_seed(st.personas[name], ROLE_SYSTEM(name)) \o <<st.messages[last]>>,
                 behs[name])
    IN  IF last = 0 THEN <<persona_call("MENTOR", st, behs["PM"])>>
        ELSE <<call("PM"), call("CTO"), call("VC")>>

\* citations = await rag.retrieve(req.message)
retrieve_call(message, fault) ==
    Call("rag", <<Msg("user", message)>>, IF fault THEN Raises("unavailable") ELSE Answers("doc"))

HandlerNodes == {"mentor", "pm", "cto", "vc", "committee"}
GraphNodes == {"router"} \cup HandlerNodes

next_node_back_to_router(node, st) ==
    IF node = "START" THEN "router"
    ELSE IF node = "router" THEN (IF st.phase = "" THEN "mentor" ELSE st.phase)
    ELSE IF node = "committee" THEN "router"
    ELSE "END"

\* the edges: START -> router, router -> the node of the phase, handler -> END
next_node(node, st) ==
    IF node = "START" THEN "router"
    ELSE IF node = "router" THEN (IF st.phase = "" THEN "mentor" ELSE st.phase)
    ELSE "END"

(***************************************************************************)
(* SpecCommittee: committee_node on a State, and again on the State that   *)
(* holds the sub-histories it returned and a further user turn             *)
(***************************************************************************)
MaxRounds == 2

CommitteeHistories ==
    {<<Msg("system", "seed"), Msg("user", "ask the committee")>>,
     <<Msg("system", "seed"), Msg("user", "Hi"),
       Msg("assistant", "**Mentor:** Focus."), Msg("user", "a panel please")>>}

CommitteeMessages == {"all of you", "ask the committee"}

\* each persona answers with a text of its own, or its call raises
CommitteeBehaviours ==
    {[n \in PersonaNames |-> IF n \in failing THEN Raises("timeout")
                             ELSE Answers(CASE n = "PM" -> "Ship."
                                            [] n = "CTO" -> "CTO: scale."
                                            [] n = "VC" -> "Fund.")]
       : failing \in SUBSET PersonaNames}

NoOutput == [messages |-> <<>>, personas |-> NoPersonas, phase |-> ""]

CommitteeInit ==
    /\ k_state \in {InputState(h) : h \in CommitteeHistories}
    /\ k_round = 0
    /\ k_prev = InputState(<<>>)
    /\ k_out = NoOutput
    /\ k_calls = <<>>

\* committee_node runs on k_state; the next State holds the sub-histories
\* it returned and the shared history with its turn and a further user turn
CommitteeRun ==
    \E behs \in CommitteeBehaviours, message \in CommitteeMessages :
        LET out == committee_node(k_state, behs)
        IN  /\ k_round < MaxRounds
            /\ k_round' = k_round + 1
            /\ k_prev' = k_state
            /\ k_out' = out
            /\ k_calls' = committee_calls(k_state, behs)
            /\ k_state' = [messages |-> k_state.messages \o out.messages
                                            \o <<Msg("user", message)>>,
                           personas |-> out.personas,
                           phase |-> out.phase]
            /\ UNCHANGED <<cl_vars, d_vars, l_vars, main_vars>>

CommitteeIdle ==
    /\ k_state = InputState(<<>>)
    /\ k_round = MaxRounds
    /\ k_prev = InputState(<<>>)
    /\ k_out = NoOutput
    /\ k_calls = <<>>

(***************************************************************************)
(* The per-thread store and the /api/chat handler (main.py)                *)
(***************************************************************************)
DEFAULT_SYSTEM_PROMPT == "You are Steve Jobs acting as a startup mentor."
Placeholder == "(no assistant response found)"

\* load_thread_from_gcs: the stored list; [] when the blob is absent and
\* when anything raised
load_thread_from_gcs(st, thread_id, fault) == IF fault THEN <<>> ELSE st[thread_id]

save_thread_to_gcs_one_blob(st, thread_id, messages, fault) ==
    IF fault THEN st ELSE [st EXCEPT !["web-fixed"] = messages]

save_thread_to_gcs_unless_grown(st, thread_id, messages, fault) ==
    IF fault \/ Len(st[thread_id]) >= Len(messages) THEN st
    ELSE [st EXCEPT ![thread_id] = messages]

\* save_thread_to_gcs: overwrite the blob; nothing when the upload raised
save_thread_to_gcs(st, thread_id, messages, fault) ==
    IF fault THEN st ELSE [st EXCEPT ![thread_id] = messages]

\* chat, steps 1 and 2: the local history a request starts from
StartHistory(st, thread_id, system_prompt, message, fault) ==
    LET system_msg == IF system_prompt = "" THEN DEFAULT_SYSTEM_PROMPT ELSE system_prompt
        loaded == MapNormalize(load_thread_from_gcs(st, thread_id, fault))
        history == IF loaded = <<>> THEN <<Msg("system", system_msg)>> ELSE loaded
    IN  history \o <<Msg("user", message)>>

ExtractReply_first(history) ==
    LET as == {i \in 1..Len(history) : history[i].role = "assistant"}
    IN  IF as = {} THEN Placeholder
        ELSE strip(history[CHOOSE i \in as : \A j \in as : i <= j].content)

\* chat, step 5: the content of the last assistant message, or the placeholder
ExtractReply(history) ==
    LET as == {i \in 1..Len(history) : history[i].role = "assistant"}
    IN  IF as = {} THEN Placeholder
        ELSE strip(history[CHOOSE i \in as : \A j \in as : i >= j].content)

Threads == {"web-fixed", "t1"}
Reqs == {1, 2}
MaxRequests == 2

ThreadIds == {"", "t1"}
UserMessages == {"Hi", "ask the committee"}
SystemPrompts == {"", "Be brief."}
ClassifierReplies == {Raises("timeout"), Answers("PM"), Answers("cto."), Answers("VC")}
PersonaReplies == {Raises("timeout"), Answers(""), Answers("Focus.")}
CommitteeReplies == {Raises("timeout"), Answers("Focus.")}

NoRequest == [thread_id |-> "", message |-> "", system_prompt |-> ""]
\* ChatResponse: reply, citations and phase, a phase never given being None
\* (here ""); status is the HTTP status of the answer
ChatResponse(status, reply, citations) ==
    [status |-> status, reply |-> reply, citations |-> citations, phase |-> ""]

NoResponse == ChatResponse(0, "", <<>>)

MainInit ==
    /\ store = [t \in Threads |-> <<>>]
    /\ pc = [r \in Reqs |-> "idle"]
    /\ req = [r \in Reqs |-> NoRequest]
    /\ local_history = [r \in Reqs |-> <<>>]
    /\ state = [r \in Reqs |-> InputState(<<>>)]
    /\ response = [r \in Reqs |-> NoResponse]
    /\ started = 0
    /\ node_trace = [r \in Reqs |-> <<>>]
    /\ router_label = [r \in Reqs |-> ""]
    /\ persisted_before = [r \in Reqs |-> <<>>]
    /\ faults = [r \in Reqs |-> {}]
    /\ writes = [r \in Reqs |-> 0]
    /\ classify_calls = [r \in Reqs |-> 0]
    /\ calls = [r \in Reqs |-> <<>>]

\* chat up to graph.ainvoke: load, seed, append the user message, enter the graph
Begin(r, tid, message, system_prompt, load_fault) ==
    LET thread_id == IF tid = "" THEN "web-fixed" ELSE tid
        h == StartHistory(store, thread_id, system_prompt, message, load_fault)
    IN  /\ pc[r] = "idle"
        /\ started < MaxRequests
        /\ started' = started + 1
        /\ req' = [req EXCEPT ![r] = [thread_id |-> thread_id, message |-> message,
                                      system_prompt |-> system_prompt]]
        /\ local_history' = [local_history EXCEPT ![r] = h]
        /\ state' = [state EXCEPT ![r] = InputState(h)]
        /\ pc' = [pc EXCEPT ![r] = next_node("START", InputState(h))]
        /\ response' = [response EXCEPT ![r] = NoResponse]
        /\ node_trace' = [node_trace EXCEPT ![r] = <<>>]
        /\ router_label' = [router_label EXCEPT ![r] = ""]
        /\ persisted_before' = [persisted_before EXCEPT ![r] = store[thread_id]]
        /\ faults' = [faults EXCEPT ![r] = IF load_fault THEN {"load"} ELSE {}]
        /\ writes' = [writes EXCEPT ![r] = 0]
        /\ classify_calls' = [classify_calls EXCEPT ![r] = 0]
        /\ calls' = [calls EXCEPT ![r] = <<>>]
        /\ UNCHANGED <<store, cl_vars, d_vars, l_vars, k_vars>>

NodeStep_checkpoints(r, node, upd, issued) ==
    LET st == ApplyUpdate(state[r], upd)
    IN  /\ pc[r] = node
        /\ state' = [state EXCEPT ![r] = st]
        /\ pc' = [pc EXCEPT ![r] = next_node(node, st)]
        /\ node_trace' = [node_trace EXCEPT ![r] = Append(@, node)]
        /\ calls' = [calls EXCEPT ![r] = @ \o issued]
        /\ store' = save_thread_to_gcs(store, req[r].thread_id, st.messages, FALSE)
        /\ writes' = [writes EXCEPT ![r] = @ + 1]
        /\ UNCHANGED <<req, local_history, response, started, persisted_before,
                       faults, cl_vars, d_vars, l_vars, k_vars>>

\* one node of the graph ran, issued the completion calls issued and
\* returned upd
NodeStep(r, node, upd, issued) ==
    LET st == ApplyUpdate(state[r], upd)
    IN  /\ pc[r] = node
        /\ state' = [state EXCEPT ![r] = st]
        /\ pc' = [pc EXCEPT ![r] = next_node(node, st)]
        /\ node_trace' = [node_trace EXCEPT ![r] = Append(@, node)]
        /\ calls' = [calls EXCEPT ![r] = @ \o issued]
        /\ UNCHANGED <<store, req, local_history, response, started, persisted_before,
                       faults, writes, cl_vars, d_vars, l_vars, k_vars>>

RouterNode(r, beh) ==
    LET out == router(state[r].messages, beh)
    IN  /\ NodeStep(r, "router", [phase |-> out.phase], <<>>)
        /\ router_label' = [router_label EXCEPT ![r] = out.label]
        /\ classify_calls' = [classify_calls EXCEPT ![r] = out.llm_calls]

MentorNode(r, beh) ==
    /\ NodeStep(r, "mentor", mentor_node(state[r], beh), <<persona_call("MENTOR", state[r], beh)>>)
    /\ UNCHANGED <<router_label, classify_calls>>

PmNode(r, beh) ==
    /\ NodeStep(r, "pm", pm_node(state[r], beh), <<persona_call("PM", state[r], beh)>>)
    /\ UNCHANGED <<router_label, classify_calls>>

CtoNode(r, beh) ==
    /\ NodeStep(r, "cto", cto_node(state[r], beh), <<persona_call("CTO", state[r], beh)>>)
    /\ UNCHANGED <<router_label, classify_calls>>

VcNode(r, beh) ==
    /\ NodeStep(r, "vc", vc_node(state[r], beh), <<persona_call("VC", state[r], beh)>>)
    /\ UNCHANGED <<router_label, classify_calls>>

CommitteeNode(r, behs) ==
    /\ NodeStep(r, "committee", committee_node(state[r], behs), committee_calls(state[r], behs))
    /\ UNCHANGED <<router_label, classify_calls>>

GraphRaises_SavesPartial(r) ==
    /\ pc[r] \in GraphNodes
    /\ pc' = [pc EXCEPT ![r] = "failed"]
    /\ response' = [response EXCEPT ![r] = ChatResponse(500, "", <<>>)]
    /\ store' = save_thread_to_gcs(store, req[r].thread_id, local_history[r], FALSE)
    /\ writes' = [writes EXCEPT ![r] = @ + 1]
    /\ UNCHANGED <<req, local_history, state, started, node_trace, router_label,
                   persisted_before, faults, classify_calls, calls, cl_vars, d_vars, l_vars, k_vars>>

\* graph.ainvoke raised: HTTPException(status_code=500)
GraphRaises(r) ==
    /\ pc[r] \in GraphNodes
    /\ pc' = [pc EXCEPT ![r] = "failed"]
    /\ response' = [response EXCEPT ![r] = ChatResponse(500, "", <<>>)]
    /\ UNCHANGED <<store, req, local_history, state, started, node_trace, router_label,
                   persisted_before, faults, writes, classify_calls, calls, cl_vars, d_vars,
                   l_vars, k_vars>>

\* chat, steps 4 to 7 and the return: diff, merge, extract the reply, save,
\* look up the citations ([] when retrieval raised)
Finish(r, save_fault, rag_fault) ==
    LET merged == MergeStep(local_history[r], state[r].messages)
        thread_id == req[r].thread_id
    IN  /\ pc[r] = "END"
        /\ local_history' = [local_history EXCEPT ![r] = merged]
        /\ store' = save_thread_to_gcs(store, thread_id, merged, save_fault)
        /\ response' = [response EXCEPT ![r] =
                            ChatResponse(200, ExtractReply(merged),
                                         IF rag_fault THEN <<>> ELSE <<"doc">>)]
        /\ pc' = [pc EXCEPT ![r] = "done"]
        /\ faults' = [faults EXCEPT ![r] = IF save_fault THEN @ \cup {"save"} ELSE @]
        /\ writes' = [writes EXCEPT ![r] = IF save_fault THEN @ ELSE @ + 1]
        /\ calls' = [calls EXCEPT ![r] = Append(@, retrieve_call(req[r].message, rag_fault))]
        /\ UNCHANGED <<req, state, started, node_trace, router_label, persisted_before,
                       classify_calls, cl_vars, d_vars, l_vars, k_vars>>

\* the call has returned: its locals are gone and its slot is free again
Release(r) ==
    /\ pc[r] \in {"done", "failed"}
    /\ pc' = [pc EXCEPT ![r] = "idle"]
    /\ req' = [req EXCEPT ![r] = NoRequest]
    /\ local_history' = [local_history EXCEPT ![r] = <<>>]
    /\ state' = [state EXCEPT ![r] = InputState(<<>>)]
    /\ response' = [response EXCEPT ![r] = NoResponse]
    /\ node_trace' = [node_trace EXCEPT ![r] = <<>>]
    /\ router_label' = [router_label EXCEPT ![r] = ""]
    /\ persisted_before' = [persisted_before EXCEPT ![r] = <<>>]
    /\ faults' = [faults EXCEPT ![r] = {}]
    /\ writes' = [writes EXCEPT ![r] = 0]
    /\ classify_calls' = [classify_calls EXCEPT ![r] = 0]
    /\ calls' = [calls EXCEPT ![r] = <<>>]
    /\ UNCHANGED <<store, started, cl_vars, d_vars, l_vars, k_vars>>

MainIdle ==
    /\ store = [t \in Threads |-> <<>>]
    /\ pc = [r \in Reqs |-> "idle"]
    /\ req = [r \in Reqs |-> NoRequest]
    /\ local_history = [r \in Reqs |-> <<>>]
    /\ state = [r \in Reqs |-> InputState(<<>>)]
    /\ response = [r \in Reqs |-> NoResponse]
    /\ started = MaxRequests
    /\ node_trace = [r \in Reqs |-> <<>>]
    /\ router_label = [r \in Reqs |-> ""]
    /\ persisted_before = [r \in Reqs |-> <<>>]
    /\ faults = [r \in Reqs |-> {}]
    /\ writes = [r \in Reqs |-> 0]
    /\ classify_calls = [r \in Reqs |-> 0]
    /\ calls = [r \in Reqs |-> <<>>]

\* a request begins while no other is in flight, in the first slot
BeginAlone(r, tid, message, system_prompt, load_fault) ==
    /\ \A q \in Reqs : pc[q] = "idle" /\ r <= q
    /\ Begin(r, tid, message, system_prompt, load_fault)

Next ==
    \E r \in Reqs :
        \/ \E tid \in ThreadIds, m \in UserMessages, sp \in SystemPrompts, f \in BOOLEAN :
               BeginAlone(r, tid, m, sp, f)
        \/ \E beh \in ClassifierReplies : RouterNode(r, beh)
        \/ \E beh \in PersonaReplies : MentorNode(r, beh)
        \/ \E beh \in PersonaReplies : PmNode(r, beh)
        \/ \E beh \in PersonaReplies : CtoNode(r, beh)
        \/ \E beh \in PersonaReplies : VcNode(r, beh)
        \/ \E behs \in [PersonaNames -> CommitteeReplies] : CommitteeNode(r, behs)
        \/ GraphRaises(r)
        \/ \E save_fault \in BOOLEAN, rag_fault \in BOOLEAN : Finish(r, save_fault, rag_fault)
        \/ Release(r)

RouterSpecInit == RouterInit /\ DiffIdle /\ LabelIdle /\ CommitteeIdle /\ MainIdle

SpecRouter == RouterSpecInit /\ [][RouterCall]_vars

DiffSpecInit == DiffInit /\ RouterIdle /\ LabelIdle /\ CommitteeIdle /\ MainIdle

SpecDiff == DiffSpecInit /\ [][DiffNext]_vars

LabelSpecInit == LabelInit /\ RouterIdle /\ DiffIdle /\ CommitteeIdle /\ MainIdle

SpecLabel == LabelSpecInit /\ [][LabelNext]_vars

\* histories that earlier requests of thread "web-fixed" have persisted
StoredHistories ==
    {<<Msg("system", DEFAULT_SYSTEM_PROMPT), Msg("user", "Hi"),
       Msg("assistant", "**Mentor:** Focus.")>>,
     <<Msg("system", DEFAULT_SYSTEM_PROMPT), Msg("user", "Hi"),
       Msg("assistant", "**PM:** Focus."), Msg("user", "Hi"),
       Msg("assistant", "**CTO:** Focus.")>>,
     <<Msg("system", "Be brief."), Msg("user", "Hi"),
       Msg("assistant", "**VC:** (No response generated)"), Msg("user", "Hi"),
       Msg("assistant", "**PM:** (Error calling LLM: timeout)")>>}

\* the service with a thread that earlier requests have written and one
\* request to come
ResumeInit ==
    /\ store \in {[t \in Threads |-> IF t = "web-fixed" THEN h ELSE <<>>] : h \in StoredHistories}
    /\ pc = [r \in Reqs |-> "idle"]
    /\ req = [r \in Reqs |-> NoRequest]
    /\ local_history = [r \in Reqs |-> <<>>]
    /\ state = [r \in Reqs |-> InputState(<<>>)]
    /\ response = [r \in Reqs |-> NoResponse]
    /\ started = MaxRequests - 1
    /\ node_trace = [r \in Reqs |-> <<>>]
    /\ router_label = [r \in Reqs |-> ""]
    /\ persisted_before = [r \in Reqs |-> <<>>]
    /\ faults = [r \in Reqs |-> {}]
    /\ writes = [r \in Reqs |-> 0]
    /\ classify_calls = [r \in Reqs |-> 0]
    /\ calls = [r \in Reqs |-> <<>>]

ResumeSpecInit == ResumeInit /\ RouterIdle /\ DiffIdle /\ LabelIdle /\ CommitteeIdle

SpecResume == ResumeSpecInit /\ [][Next]_vars

CommitteeSpecInit == CommitteeInit /\ RouterIdle /\ DiffIdle /\ LabelIdle /\ MainIdle

SpecCommittee == CommitteeSpecInit /\ [][CommitteeRun]_vars

Init == MainInit /\ RouterIdle /\ DiffIdle /\ LabelIdle /\ CommitteeIdle

Spec == Init /\ [][Next]_vars

\* SpecConc: chat calls that overlap. A call gives way to other calls at its
\* awaits (graph.ainvoke, rag.retrieve); between them it runs alone.
ConcMessages == {"Hi", "@pm plan?"}
ConcClassifierReplies == {Raises("timeout")}
ConcPersonaReplies == {Raises("timeout"), Answers("Focus.")}

\* a request begins in the lowest free slot, whatever the other slots do
BeginAny(r, tid, message, system_prompt, load_fault) ==
    /\ \A q \in Reqs : q < r => pc[q] # "idle"
    /\ Begin(r, tid, message, system_prompt, load_fault)

NextConc ==
    \E r \in Reqs :
        \/ \E tid \in ThreadIds, m \in ConcMessages : BeginAny(r, tid, m, "", FALSE)
        \/ \E beh \in ConcClassifierReplies : RouterNode(r, beh)
        \/ \E beh \in ConcPersonaReplies : MentorNode(r, beh)
        \/ \E beh \in ConcPersonaReplies : PmNode(r, beh)
        \/ GraphRaises(r)
        \/ \E rag_fault \in BOOLEAN : Finish(r, FALSE, rag_fault)
        \/ Release(r)

SpecConc == Init /\ [][NextConc]_vars

(***************************************************************************)
(* Claims                                                                  *)
(***************************************************************************)
Count(h, role) == Cardinality({i \in 1..Len(h) : h[i].role = role})

IsPrefix(a, b) == Len(a) <= Len(b) /\ SubSeq(b, 1, Len(a)) = a

HasAssistant(h) == \E i \in 1..Len(h) : h[i].role = "assistant"

LastAssistant(h) ==
    h[CHOOSE i \in 1..Len(h) :
        h[i].role = "assistant" /\ \A j \in (i + 1)..Len(h) : h[j].role # "assistant"]

\* the thread's stored list as request r sees it now
Persisted(r) == store[req[r].thread_id]

\* the latest user text of the history handed to router()
cl_has_user == \E i \in 1..Len(cl_messages) : cl_messages[i].role = "user"
cl_text == cl_messages[_last_user_index(cl_messages)].content

\* the classifier's call failed: it raised, or its text, stripped of
\* non-letters and upper-cased, is none of the five labels
ClassifierFails(beh) ==
    beh.raises \/ OnlyUpperLetters(upper(strip(beh.content))) \notin LABELS

\* C1: diff-merge is idempotent. With after = before + [a] the merge step
\* yields before + [a]; merging that result with the same after a second
\* time appends nothing, so the merged history is still before + [a].
C1_DiffMergeIdempotent ==
    /\ "full" \in d_done => d_full = d_before \o d_new
    /\ "again" \in d_done => d_again = d_before \o d_new

\* C1 witness: the merge step was re-applied for a new turn whose content
\* already occurs earlier in before.
C1_Witness ==
    /\ "again" \in d_done
    /\ \E i \in 1..Len(d_before) : d_before[i] = d_new[1]
    /\ Len(d_again) = Len(d_before) + 1

\* C2: a request that completed, with no store call failing, has grown the
\* persisted history of its thread by exactly one user turn and at least one
\* assistant turn (exactly one in committee mode), under a single system
\* seed; over N requests the length is 1 + N + the assistant turns, which
\* are at least N.
C2_HistoryGrowsPerRequest ==
    \A r \in Reqs :
        pc[r] = "done" /\ faults[r] = {} =>
            /\ Count(Persisted(r), "system") = 1
            /\ Count(Persisted(r), "user") = Count(persisted_before[r], "user") + 1
            /\ Count(Persisted(r), "assistant") >= Count(persisted_before[r], "assistant") + 1
            /\ router_label[r] = "COMMITTEE" =>
                   Count(Persisted(r), "assistant") = Count(persisted_before[r], "assistant") + 1

\* C3: the persisted history is append-only. The history persisted after a
\* request has the history persisted before that request as a prefix.
C3_AppendOnly ==
    \A r \in Reqs : pc[r] = "done" => IsPrefix(persisted_before[r], Persisted(r))

\* C4: the merged history is before + D in both executor output modes, the
\* full accumulated list (before + D) and the delta (D).
C4_BothModesAgree ==
    /\ "full" \in d_done => d_full = d_before \o d_new
    /\ "delta" \in d_done => d_delta = d_before \o d_new

\* C5: a failure of the store's load or save is a hard failure of the
\* request. No request returns a normal reply after its load or its save
\* has failed.
C5_StoreFaultsPropagate ==
    \A r \in Reqs : response[r].status = 200 => faults[r] = {}

\* C6: a request that failed before the save step (graph.ainvoke raised)
\* wrote nothing. It is answered with a 500 and the persisted history of its
\* thread is what it was when the request began.
C6_FailureLeavesStoreUntouched ==
    \A r \in Reqs :
        pc[r] = "failed" =>
            /\ response[r].status = 500
            /\ writes[r] = 0
            /\ Persisted(r) = persisted_before[r]

\* C6 witness: a request on a thread with a stored history failed in the
\* graph, after the user turn was appended to its local history.
C6_Witness ==
    \E r \in Reqs :
        /\ pc[r] = "failed"
        /\ persisted_before[r] # <<>>
        /\ local_history[r] = persisted_before[r] \o <<Msg("user", req[r].message)>>
        /\ Persisted(r) = persisted_before[r]

\* C7: a request that returns without an error returns a non-empty reply:
\* the content of the last assistant turn of the merged history, or the
\* fixed non-empty placeholder when the merged history has no assistant turn.
C7_ReplyNonEmpty ==
    \A r \in Reqs :
        pc[r] = "done" =>
            /\ response[r].reply # ""
            /\ Placeholder # ""
            /\ response[r].reply = IF HasAssistant(local_history[r])
                                   THEN LastAssistant(local_history[r]).content
                                   ELSE Placeholder

\* C7 witness: the second request of a thread returned, and the completion
\* service had answered its handler with an empty text.
C7_Witness ==
    \E r \in Reqs :
        /\ pc[r] = "done"
        /\ Count(local_history[r], "assistant") = 2
        /\ response[r].reply = "**PM:** (No response generated)"

\* C8: per request the router runs exactly once and then exactly one handler,
\* the one of the router's label, runs exactly once; after it the graph has
\* ended. No request runs two handlers or returns to the router.
C8_OneHandlerPerRequest ==
    \A r \in Reqs :
        LET expected == <<"router", phase_map(router_label[r])>>
        IN  /\ IsPrefix(node_trace[r], expected)
            /\ Len(node_trace[r]) = 2 => pc[r] \notin GraphNodes
            /\ pc[r] \in {"END", "done"} => node_trace[r] = expected

\* C8 witness: a request routed to the committee has left the graph.
C8_Witness ==
    \E r \in Reqs :
        /\ pc[r] = "END"
        /\ router_label[r] = "COMMITTEE"
        /\ node_trace[r] = <<"router", "committee">>

\* C9 as stated: any latest user text containing "committee" (in any letter
\* case) is classified COMMITTEE without consulting the classifier.
C9_ContainsCommittee ==
    cl_pc = "returned" /\ cl_has_user /\ Contains(lower(cl_text), "committee") =>
        cl_result.label = "COMMITTEE" /\ cl_result.llm_calls = 0

\* C9 amended: any latest user text containing "committee" as a whole word
\* (in any letter case) is classified COMMITTEE whatever the classifier would
\* do, and the classifier is not consulted.
C9_CommitteeWord ==
    cl_pc = "returned" /\ cl_has_user /\ HasWord(lower(cl_text), "committee") =>
        cl_result.label = "COMMITTEE" /\ cl_result.llm_calls = 0

\* C9 witness: "COMMITTEE!" was classified COMMITTEE although the classifier
\* would have answered MENTOR.
C9_Witness ==
    /\ cl_pc = "returned"
    /\ cl_has_user
    /\ cl_text = "COMMITTEE!"
    /\ cl_llm = Answers("MENTOR")
    /\ cl_result = [phase |-> "committee", label |-> "COMMITTEE", llm_calls |-> 0]

\* C10: whatever the classifier does, router() returns one of the five
\* labels; when the classifier's call fails the label is the keyword
\* heuristic's label of the latest user text; with no user turn it is MENTOR.
C10_RouterFallsBack ==
    cl_pc = "returned" =>
        /\ cl_result.label \in LABELS
        /\ cl_result.phase \in HandlerNodes
        /\ ~cl_has_user => cl_result.label = "MENTOR"
        /\ cl_has_user /\ ClassifierFails(cl_llm) => cl_result.label = _heuristic_label(cl_text)

\* C10 witness: the classifier answered with a text that is no label and the
\* router fell back to the heuristic's CTO.
C10_Witness ==
    /\ cl_pc = "returned"
    /\ cl_has_user
    /\ cl_text = "@cto scale?"
    /\ cl_llm = Answers("The PM")
    /\ cl_result.label = "CTO"

SinglePersona(r) ==
    /\ pc[r] \in {"END", "done"}
    /\ router_label[r] \in {"MENTOR", "PM", "CTO", "VC"}

\* the completion call of the request's handler raised
HandlerCallRaised(r) == Len(calls[r]) >= 1 /\ calls[r][1].raises

\* C11: when the completion service raises in a persona handler (MENTOR, PM,
\* CTO, VC) the handler still returns exactly one assistant turn holding a
\* synthesized error text, the request completes normally, and (no store
\* call having failed) that turn is the last turn of the persisted history.
C11_HandlerErrorPersisted ==
    \A r \in Reqs :
        SinglePersona(r) /\ HandlerCallRaised(r) =>
            /\ Len(state[r].messages) = 1
            /\ state[r].messages[1].role = "assistant"
            /\ Contains(state[r].messages[1].content, "(Error calling LLM: timeout)")
            /\ pc[r] = "done" /\ faults[r] = {} =>
                   /\ response[r].status = 200
                   /\ Persisted(r) # <<>>
                   /\ Persisted(r)[Len(Persisted(r))] = state[r].messages[1]

\* the first position of the literal w in t, 0 when it does not occur
PosOf(t, w) ==
    LET at == {i \in 1..Len(t) : StartsAt(t, w, i)}
    IN  IF at = {} THEN 0 ELSE CHOOSE i \in at : \A j \in at : i <= j

\* the number of positions of t at which the literal w occurs
Occurrences(t, w) == Cardinality({i \in 1..Len(t) : StartsAt(t, w, i)})

EndsWith(t, w) == Len(w) <= Len(t) /\ SubSeq(t, Len(t) - Len(w) + 1, Len(t)) = w

\* the request was sent to the committee and has left the graph
CommitteeRan(r) == pc[r] \in {"END", "done"} /\ router_label[r] = "COMMITTEE"

\* the content of the one turn the request's handler returned
Produced(r) == state[r].messages[1].content

\* where the sections of a combined reply begin (0: no such section)
SectionStart(c, name) ==
    IF name = "PM" THEN PosOf(c, "**PM:** ")
    ELSE IF PosOf(c, "\n\n**" \o name \o ":** ") = 0 THEN 0
    ELSE PosOf(c, "\n\n**" \o name \o ":** ") + 2

HintStart(c) == IF PosOf(c, "\n\n" \o CommitteeHint) = 0 THEN 0
                ELSE PosOf(c, "\n\n" \o CommitteeHint) + 2

\* the text of a persona's section of a combined reply
Section(c, name) ==
    LET next == CASE name = "PM" -> SectionStart(c, "CTO")
                  [] name = "CTO" -> SectionStart(c, "VC")
                  [] name = "VC" -> HintStart(c)
    IN  SubSeq(c, SectionStart(c, name), next - 3)

\* the completion call issued for persona name in request r
CallFor(r, name) == calls[r][CHOOSE i \in 1..Len(calls[r]) : calls[r][i].to = name]

SynthError(name, e) == "(Error calling LLM for " \o name \o ": " \o e \o ")"

\* C12: in committee fan-out, whichever of the PM, CTO and VC completion
\* calls fail, all three calls are issued and one combined assistant turn is
\* returned; the section of a failing persona holds the synthesized error
\* text, the section of every other persona holds its normal reply and no
\* error text.
C12_CommitteeAbsorbsFailures ==
    \A r \in Reqs :
        CommitteeRan(r) =>
            /\ Len(state[r].messages) = 1
            /\ state[r].messages[1].role = "assistant"
            /\ \A name \in PersonaNames :
                   /\ \E i \in 1..Len(calls[r]) : calls[r][i].to = name
                   /\ SectionStart(Produced(r), name) > 0
                   /\ IF CallFor(r, name).raises
                      THEN Contains(Section(Produced(r), name),
                                    SynthError(name, CallFor(r, name).answer))
                      ELSE /\ EndsWith(Section(Produced(r), name), strip(CallFor(r, name).answer))
                           /\ ~Contains(Section(Produced(r), name), "(Error calling LLM")

\* C12 witness: the completion call of the CTO alone raised and the combined
\* turn was returned with the error text in the CTO's section.
C12_Witness ==
    \E r \in Reqs :
        /\ CommitteeRan(r)
        /\ CallFor(r, "CTO").raises /\ ~CallFor(r, "PM").raises /\ ~CallFor(r, "VC").raises
        /\ Contains(Section(Produced(r), "CTO"), "(Error calling LLM for CTO: timeout)")
        /\ EndsWith(Section(Produced(r), "PM"), "Focus.")
        /\ EndsWith(Section(Produced(r), "VC"), "Focus.")

\* C13: a committee request produces exactly one assistant turn: the fixed
\* header, then the PM, the CTO and the VC section in this order, then the
\* fixed closing hint; the three completion calls are issued in the order
\* PM, CTO, VC.
C13_CommitteeOrder ==
    \A r \in Reqs :
        CommitteeRan(r) =>
            LET c == Produced(r) IN
            /\ Len(state[r].messages) = 1
            /\ state[r].messages[1].role = "assistant"
            /\ StartsAt(c, CommitteeHeader, 1)
            /\ SectionStart(c, "PM") = Len(CommitteeHeader) + 1
            /\ SectionStart(c, "PM") < SectionStart(c, "CTO")
            /\ SectionStart(c, "CTO") < SectionStart(c, "VC")
            /\ SectionStart(c, "VC") < HintStart(c)
            /\ EndsWith(c, CommitteeHint) /\ HintStart(c) = Len(c) - Len(CommitteeHint) + 1
            /\ Len(calls[r]) >= 3
            /\ <<calls[r][1].to, calls[r][2].to, calls[r][3].to>> = <<"PM", "CTO", "VC">>

\* C13 witness: a committee request with three answered calls has left the
\* graph with the three calls issued.
C13_Witness ==
    \E r \in Reqs :
        /\ pc[r] = "END"
        /\ router_label[r] = "COMMITTEE"
        /\ Len(calls[r]) = 3
        /\ \A i \in 1..3 : ~calls[r][i].raises
        /\ Len(Section(Produced(r), "PM")) > 0
        /\ Len(Section(Produced(r), "VC")) > 0

\* C14: every persona reply carries its role label exactly once: the reply
\* of a single persona handler its own label, and each of the PM, CTO and VC
\* sections of the combined committee turn its label (never a doubled one).
C14_LabelExactlyOnce ==
    \A r \in Reqs :
        /\ SinglePersona(r) =>
               Occurrences(Produced(r), strip(LABEL_PREFIX(router_label[r]))) = 1
        /\ CommitteeRan(r) =>
               \A name \in PersonaNames :
                   /\ Occurrences(Section(Produced(r), name), strip(LABEL_PREFIX(name))) = 1
                   /\ ~Contains(Produced(r), LABEL_PREFIX(name) \o LABEL_PREFIX(name))

\* the thread of request r held the combined turn of an earlier committee
\* request when r began, and r loaded it
EarlierCommittee(r) ==
    /\ "load" \notin faults[r]
    /\ \E i \in 1..Len(persisted_before[r]) :
           /\ persisted_before[r][i].role = "assistant"
           /\ StartsAt(persisted_before[r][i].content, CommitteeHeader, 1)

\* C16: persona sub-histories survive between requests. On a committee
\* request of a session that has had a committee request before, the
\* completion call of each persona P receives, besides P's system prompt and
\* the current user turn, P's turns of the earlier request: an earlier user
\* turn and P's reply to it.
C16_SubHistoriesSurvive ==
    \A r \in Reqs :
        CommitteeRan(r) /\ EarlierCommittee(r) =>
            \A name \in PersonaNames :
                /\ Count(CallFor(r, name).messages, "user") >= 2
                /\ Count(CallFor(r, name).messages, "assistant") >= 1

\* the retrieval call of request r raised
RetrievalRaised(r) ==
    \E i \in 1..Len(calls[r]) : calls[r][i].to = "rag" /\ calls[r][i].raises

\* C18: a failure of the retrieval service never fails the chat turn. When
\* the citation lookup raised, the request has returned its reply with an
\* empty citation list and its merged history is the persisted history of
\* its thread.
C18_RetrievalFailureIsAbsorbed ==
    \A r \in Reqs :
        pc[r] = "done" /\ RetrievalRaised(r) =>
            /\ response[r].status = 200
            /\ response[r].reply # ""
            /\ response[r].citations = <<>>
            /\ Persisted(r) = local_history[r]

\* a graph State that holds the Progress Record's counters within their ranges
HasProgress(st) ==
    /\ {"tests_done", "general_done"} \subseteq DOMAIN st
    /\ st.tests_done \in 0..3
    /\ st.general_done \in 0..4

\* C19: every session owns a Progress Record with counters tests_done in
\* 0..3 and general_done in 0..4, and no step of a request decreases them.
C19_ProgressCounters ==
    [][\A r \in Reqs :
          pc'[r] # "idle" =>
              /\ HasProgress(state'[r])
              /\ HasProgress(state[r]) =>
                     /\ state'[r].tests_done >= state[r].tests_done
                     /\ state'[r].general_done >= state[r].general_done]_vars

\* C20: the reply returned for a request that the router sent to a single
\* persona X begins with X's role label.
C20_ReplyBeginsWithLabel ==
    \A r \in Reqs :
        pc[r] = "done" /\ SinglePersona(r) =>
            StartsAt(response[r].reply, strip(LABEL_PREFIX(router_label[r])), 1)

\* the step is request r's load: chat up to graph.ainvoke
Loads(r) == pc[r] = "idle" /\ pc'[r] # "idle"

\* the step is request r's save: chat from the merge to the return
Saves(r) == pc[r] = "END" /\ pc'[r] = "done"

\* what a request with this message persists when it runs with no other
\* request in flight on a thread holding persisted, its graph returning out
AloneResult(persisted, message, out) ==
    MergeStep((IF persisted = <<>> THEN <<Msg("system", DEFAULT_SYSTEM_PROMPT)>> ELSE persisted)
                  \o <<Msg("user", message)>>, out)

\* C17: requests for different thread_ids are independent under every
\* interleaving. A request for thread A starts from A's persisted history
\* alone; a thread's persisted history is changed only by the save of a
\* request for that thread, which leaves every other thread as it is; and
\* when no other request for A has saved since the request began, what it
\* persists for A is what it would persist running alone, whatever requests
\* for other threads did meanwhile.
C17_ThreadsIndependent ==
    [][/\ \A t \in Threads :
             store'[t] # store[t] => \E r \in Reqs : Saves(r) /\ req[r].thread_id = t
       /\ \A r \in Reqs :
             /\ Loads(r) =>
                    local_history'[r] =
                        (IF store[req'[r].thread_id] = <<>>
                         THEN <<Msg("system", DEFAULT_SYSTEM_PROMPT)>>
                         ELSE store[req'[r].thread_id]) \o <<Msg("user", req'[r].message)>>
             /\ Saves(r) =>
                    /\ \A t \in Threads \ {req[r].thread_id} : store'[t] = store[t]
                    /\ store[req[r].thread_id] = persisted_before[r] =>
                           store'[req[r].thread_id] =
                               AloneResult(persisted_before[r], req[r].message, state[r].messages)
      ]_vars

\* C17 witness: a request for one thread has saved while a request for
\* another thread, begun on an empty store, is still in its graph, and each
\* thread holds the history of its own request only.
C17_Witness ==
    \E r, q \in Reqs :
        /\ pc[r] = "done" /\ pc[q] \in HandlerNodes
        /\ req[r].thread_id # req[q].thread_id
        /\ persisted_before[r] = <<>> /\ persisted_before[q] = <<>>
        /\ store[req[r].thread_id] = local_history[r]
        /\ store[req[q].thread_id] = <<>>

\* C21: the response of every successful request carries, besides the
\* reply, the phase selected for the turn (mentor, pm, cto, vc or committee).
C21_ResponseCarriesPhase ==
    \A r \in Reqs :
        pc[r] = "done" =>
            /\ response[r].phase \in HandlerNodes
            /\ response[r].phase = phase_map(router_label[r])
            /\ response[r].phase = state[r].phase

\* the effective system prompt of request r: its override, else the default
EffectivePrompt(r) ==
    IF req[r].system_prompt = "" THEN DEFAULT_SYSTEM_PROMPT ELSE req[r].system_prompt

\* C22: every persisted history has exactly one system turn, its first
\* element. The first request of a thread with no stored history seeds it
\* with the effective system prompt; on every later request the stored seed
\* stays the first element, whatever override the request carries.
C22_SingleLeadingSeed ==
    /\ \A t \in Threads :
           store[t] # <<>> => Count(store[t], "system") = 1 /\ store[t][1].role = "system"
    /\ \A r \in Reqs :
           pc[r] = "done" /\ Persisted(r) # <<>> =>
               IF persisted_before[r] = <<>>
               THEN Persisted(r)[1] = Msg("system", EffectivePrompt(r))
               ELSE Persisted(r)[1] = persisted_before[r][1]

\* C23: after the PM, CTO or VC handler has run, that persona's sub-history
\* ends with the current user turn followed by the assistant reply produced
\* in this execution.
C23_SubHistoryEndsWithReply ==
    \A r \in Reqs :
        SinglePersona(r) /\ router_label[r] \in PersonaNames =>
            LET sub == state[r].personas[router_label[r]]
                n == Len(sub)
            IN  /\ n >= 2
                /\ sub[n].role = "assistant"
                /\ EndsWith(Produced(r), sub[n].content)
                /\ sub[n - 1] = Msg("user", req[r].message)

\* the completion call the last run of committee_node issued for persona name
FanOutCall(name) == k_calls[CHOOSE i \in 1..Len(k_calls) : k_calls[i].to = name]

\* texts that belong to persona name alone: its system instruction, its
\* answer and its error text
OwnTexts(name) ==
    {ROLE_SYSTEM(name), SynthError(name, "timeout"),
     CASE name = "PM" -> "Ship." [] name = "CTO" -> "CTO: scale." [] name = "VC" -> "Fund."}

\* C24: in committee fan-out the completion call for persona P receives P's
\* system instruction, P's own prior sub-history and the current user turn,
\* and no turn of the shared history or of another persona; P's sub-history
\* becomes that request followed by P's reply, whatever the other personas'
\* calls did, and the node returns one new turn without rewriting the shared
\* history.
C24_FanOutIsolated ==
    k_round >= 1 =>
        LET user == k_prev.messages[_last_user_index(k_prev.messages)] IN
        /\ Len(k_out.messages) = 1
        /\ \A P \in PersonaNames :
               LET call == FanOutCall(P)
                   sub == k_out.personas[P]
               IN  /\ call.messages = <<Msg("system", ROLE_SYSTEM(P))>>
                                           \o SelectSeq(k_prev.personas[P], IsNotSystem)
                                           \o <<user>>
                   /\ \A i \in 1..Len(call.messages) :
                          /\ \A Q \in PersonaNames \ {P} :
                                 \A t \in OwnTexts(Q) : ~Contains(call.messages[i].content, t)
                          /\ ~Contains(call.messages[i].content, "**Mentor:**")
                          /\ ~Contains(call.messages[i].content, CommitteeHeader)
                   /\ Len(sub) = Len(call.messages) + 1
                   /\ SubSeq(sub, 1, Len(call.messages)) = call.messages
                   /\ sub[Len(sub)].role = "assistant"
                   /\ sub[Len(sub)].content \in OwnTexts(P)

\* C24 witness: committee_node ran a second time; the call for the PM held
\* the PM's request and answer of the first run, and the CTO's call failed.
C24_Witness ==
    /\ k_round = 2
    /\ Len(FanOutCall("PM").messages) = 4
    /\ FanOutCall("PM").messages[3] = Msg("assistant", "Ship.")
    /\ FanOutCall("CTO").raises
    /\ Len(k_prev.messages) >= 4

BothLoadedFirst(r, q) ==
    /\ r # q
    /\ req[r].thread_id = req[q].thread_id
    /\ pc[r] = "done" /\ pc[q] = "END"
    /\ persisted_before[r] = persisted_before[q]

\* C26: requests for the same thread_id are a read-modify-write that is not
\* atomic. When two of them interleave so that both load before either
\* saves, the later save overwrites the earlier one: what is persisted is
\* what the later request would persist running alone on the history it
\* loaded, which has one user turn more than that history, so the earlier
\* request's user and assistant turns are lost.
C26_LaterSaveOverwrites ==
    [][\A r, q \in Reqs :
           (BothLoadedFirst(r, q) /\ Saves(q)) =>
               /\ store[req[q].thread_id] = local_history[r]
               /\ store'[req[q].thread_id] =
                      AloneResult(persisted_before[q], req[q].message, state[q].messages)
               /\ Count(store'[req[q].thread_id], "user") =
                      Count(persisted_before[q], "user") + 1
      ]_vars

\* C26 witness: two requests for one thread with different messages both
\* began on the empty thread and both answered; the thread holds the history
\* of one of them and neither the user turn nor the reply of the other.
C26_Witness ==
    \E r, q \in Reqs :
        /\ r # q /\ req[r].thread_id = req[q].thread_id
        /\ pc[r] = "done" /\ pc[q] = "done"
        /\ persisted_before[r] = <<>> /\ persisted_before[q] = <<>>
        /\ req[r].message # req[q].message
        /\ response[r].status = 200 /\ response[r].reply # response[q].reply
        /\ Persisted(q) = local_history[q]
        /\ \A i \in 1..Len(Persisted(q)) :
               /\ Persisted(q)[i].content # req[r].message
               /\ Persisted(q)[i].content # response[r].reply

\* the text has a token that indicates the role, in any letter case
Indicates(name, text) ==
    LET t == lower(text)
    IN  CASE name = "CTO" -> HasWord(t, "cto") \/ Contains(t, "chief technology officer")
                             \/ Contains(t, "@cto")
          [] name = "PM" -> HasWord(t, "pm") \/ Contains(t, "product manager")
                            \/ Contains(t, "@pm")
          [] name = "VC" -> HasWord(t, "vc") \/ Contains(t, "investor")
                            \/ Contains(t, "venture capital") \/ Contains(t, "@vc")

HeuristicPriority == <<"CTO", "PM", "VC">>
Indicated(text) == {i \in 1..3 : Indicates(HeuristicPriority[i], text)}

\* C27: the keyword heuristic has a fixed priority. When the classifier's
\* call failed and the latest user text has no committee trigger, the label
\* is the first of CTO, PM, VC that the text indicates, and MENTOR when it
\* indicates none; the answer depends on the text alone.
C27_HeuristicPriority ==
    (cl_pc = "returned" /\ cl_has_user /\ ClassifierFails(cl_llm) /\ ~_committee_trigger(cl_text)) =>
        LET present == Indicated(cl_text)
        IN  /\ cl_result.label =
                   (IF present = {} THEN "MENTOR"
                    ELSE HeuristicPriority[CHOOSE i \in present : \A j \in present : i <= j])
            /\ cl_result.label = _heuristic_label(cl_text)

\* C27 witness: the classifier failed on a text that names two roles without
\* a committee trigger, the PM and the CTO, and the label is CTO.
C27_Witness ==
    /\ cl_pc = "returned" /\ cl_has_user /\ ClassifierFails(cl_llm)
    /\ ~_committee_trigger(cl_text)
    /\ Indicated(cl_text) = {1, 2}
    /\ cl_result.label = "CTO"

\* steps of request r: its router ran, its handler ran
Routes(r) == pc[r] = "router" /\ pc'[r] \in HandlerNodes
Handles(r) == pc[r] \in HandlerNodes /\ pc'[r] = "END"

\* every call logged for r is a completion call of a persona that has
\* returned or failed
OnlyCompletions(cs) ==
    \A i \in 1..Len(cs) : cs[i].to \in PersonaNames \cup {"MENTOR"}

\* C28: within every request the external calls come in the order load,
\* optional classification call, completion call(s), save. The load comes
\* before any call; the router makes at most one classification call, none
\* when the text has a committee trigger, before any completion call; the
\* handler then makes its completion calls; the save comes after all of
\* them have returned or failed. The store is written at most once per
\* request and only by the save step: the load, the router and the handlers
\* leave it as it is.
C28_CallOrder ==
    [][/\ store' # store => \E q \in Reqs : Saves(q)
       /\ \A r \in Reqs :
             /\ Loads(r) =>
                    /\ store' = store
                    /\ node_trace'[r] = <<>> /\ classify_calls'[r] = 0
                    /\ calls'[r] = <<>> /\ writes'[r] = 0
             /\ Routes(r) =>
                    /\ store' = store
                    /\ node_trace[r] = <<>> /\ calls[r] = <<>>
                    /\ classify_calls'[r] \in {0, 1}
                    /\ classify_calls'[r] = 0 <=> _committee_trigger(req[r].message)
                    /\ calls'[r] = <<>> /\ writes'[r] = 0
             /\ Handles(r) =>
                    /\ store' = store
                    /\ node_trace[r] = <<"router">> /\ calls[r] = <<>>
                    /\ classify_calls'[r] = classify_calls[r]
                    /\ calls'[r] # <<>> /\ OnlyCompletions(calls'[r])
                    /\ writes'[r] = 0
             /\ Saves(r) =>
                    /\ Len(node_trace[r]) = 2 /\ node_trace[r][1] = "router"
                    /\ node_trace[r][2] \in HandlerNodes
                    /\ calls[r] # <<>> /\ OnlyCompletions(calls[r])
                    /\ classify_calls'[r] = classify_calls[r]
                    /\ writes[r] = 0 /\ writes'[r] <= 1
                    /\ \A t \in Threads \ {req[r].thread_id} : store'[t] = store[t]
      ]_vars

\* C28 witness: a request whose classifier was called and answered PM has
\* made its one completion call and then its one write, and the thread holds
\* its merged history.
C28_Witness ==
    \E r \in Reqs :
        /\ pc[r] = "done"
        /\ node_trace[r] = <<"router", "pm">>
        /\ classify_calls[r] = 1
        /\ Len(calls[r]) = 2 /\ calls[r][1].to = "PM" /\ calls[r][2].to = "rag"
        /\ writes[r] = 1
        /\ Persisted(r) = local_history[r]

\* C29: the reply returned for a request is the content of an assistant turn
\* produced by that same request. When the history the request loaded holds
\* assistant turns already, the reply is the stripped content of the turn
\* its handler just returned, never the content of an earlier turn.
C29_ReplyIsOwnTurn ==
    \A r \in Reqs :
        (pc[r] = "done" /\ "load" \notin faults[r] /\ HasAssistant(persisted_before[r])) =>
            /\ HasAssistant(state[r].messages)
            /\ response[r].reply = strip(LastAssistant(state[r].messages).content)

\* C30: the merge step appends only assistant turns. Whatever system and
\* user turns the executor's output holds, a persona's system instruction
\* among them, the merged history is before followed by assistant turns of
\* that output only: its one system turn is the seed, first, and its user
\* turns are those of before, the last of them the request's own message.
C30_MergeAppendsAssistantOnly ==
    "mixed" \in d_done =>
        LET merged == d_mix.merged
        IN  /\ IsPrefix(d_before, merged)
            /\ \A i \in (Len(d_before) + 1)..Len(merged) :
                   /\ merged[i].role = "assistant"
                   /\ \E j \in 1..Len(d_mix.after) : d_mix.after[j] = merged[i]
            /\ Count(merged, "system") = 1 /\ merged[1] = d_before[1]
            /\ Count(merged, "user") = Count(d_before, "user")
            /\ \A i \in 1..Len(merged) : merged[i] # PersonaInstruction

\* C30 witness: the output held a persona's system instruction and a user
\* turn after before, and the merged history is before and the new
\* assistant turn.
C30_Witness ==
    /\ "mixed" \in d_done
    /\ Len(d_mix.after) = Len(d_before) + 3
    /\ d_mix.after[Len(d_before) + 1].role = "user"
    /\ d_mix.after[Len(d_before) + 2] = PersonaInstruction
    /\ d_mix.merged = d_before \o d_new

====
